---- MODULE Spec2Model ----
(***************************************************************************)
(* Snapchat Marketing source connector (source_snapchat_marketing/source.py)*)
(*                                                                         *)
(*   Spec        the sliced incremental read of one stream: stream_slices  *)
(*               (with the slices get_depend_on_records fetches and        *)
(*               caches), read_records and get_updated_state of            *)
(*               IncrementalSnapchatMarketingStream, driven slice by slice *)
(*               and record by record.                                     *)
(*   SpecResolve get_depend_on_records and the module-level cache          *)
(*               auxiliary_record_map, called by the stream_slices of the  *)
(*               dependent streams and directly.                           *)
(*   SpecStats   AdaccountStats.read_records: one read per breakdown       *)
(*               level, merged by id+type+start_time+end_time.             *)
(*   SpecParams  AdaccountStats.request_params and _get_rounded_datetime.  *)
(*   SpecResponse  SnapchatMarketingStream.parse_response and              *)
(*               next_page_token, applied to the responses of the API.     *)
(*   SpecPaging  the pagination loop of a read, request by request: of     *)
(*               AdaccountStats.read_records for every breakdown level,    *)
(*               and of a stream that keeps the request_params of          *)
(*               SnapchatMarketingStream.                                  *)
(*   SpecAuth    SourceSnapchatMarketing.check_connection and              *)
(*               SnapchatAdsOauth2Authenticator.refresh_access_token.      *)
(*                                                                         *)
(* Freshchat source connector (source_freshchat/source.py)                 *)
(*                                                                         *)
(*   SpecFresh   the pagination of FreshchatStream: request_params and     *)
(*               next_page_token, request by request.                      *)
(***************************************************************************)
EXTENDS Integers, Sequences, FiniteSets, TLC

(***************************************************************************)
(* Bounds of the model.                                                    *)
(***************************************************************************)
\* cursor values (timestamps, compared as Python compares the strings) are 1..MaxCursor
MaxCursor == 3
\* number of slices stream_slices may return
MaxSlices == 2
\* number of records the API returns for one slice
MaxRecs == 2
\* number of organizations the API holds
MaxOrgs == 2
\* number of ad accounts the API holds for one organization
MaxAccts == 2
\* number of stream_slices / get_depend_on_records calls made in one run
MaxCalls == 3
\* number of records parsed in one AdaccountStats.read_records call
MaxParsed == 3
\* the day the configured start date lies in
ParamDays == 1
\* a day of 1970 on which daylight saving time is in force in America/Los_Angeles
DstDay == 181
\* number of items in one response
MaxItems == 2
\* total_pages the Freshchat API may report
MaxTotalPages == 6
\* number of pages the Snapchat API holds for one pagination sequence
MaxPages == 3
\* number of requests the model follows a pagination loop for
MaxRequests == 4

(***************************************************************************)
(* Values.                                                                 *)
(***************************************************************************)
\* the "" default of latest_record.get(cursor_field, ""): below every timestamp
EmptyStr == 0

\* IncrementalSnapchatMarketingStream.cursor_field
cursor_field == "updated_at"

\* Python None where a slice is expected (last_slice = None, the slice of [None])
None == [k \in {} |-> EmptyStr]

\* no get_updated_state call made yet
NoCall == [k \in {} |-> EmptyStr]

\* an empty mapping {} (a stream state that holds nothing yet)
EmptyState == [k \in {} |-> EmptyStr]

\* the mapping {cursor_field: c}: a stream state, or the cursor part of a record
CursorMap(c) == [k \in {cursor_field} |-> c]

CursorValues == 1..MaxCursor

\* mapping.get(key, default)
Get(mapping, key, default) == IF key \in DOMAIN mapping THEN mapping[key] ELSE default

\* Python max(a, b)
Max2(a, b) == IF a >= b THEN a ELSE b

\* max over a non-empty finite set
MaxOf(S) == CHOOSE m \in S : \A x \in S : x <= m

SeqsUpTo(S, n) == UNION {[1..k -> S] : k \in 0..n}

Range(s) == {s[i] : i \in DOMAIN s}

VARIABLES
    start_date,      \* self.start_date, the configured start date
    pre_state,       \* the stream state persisted before the run
    stream_state,    \* the stream state the run holds, passed to every call
    slices,          \* what stream_slices yielded
    last_slice,      \* self.last_slice
    current_slice,   \* self.current_slice
    slice_idx,       \* position of the run in slices
    pending,         \* records read_records has still to yield for the slice
    all_records,     \* cursor values of every record the API returned
    emitted,         \* cursor values of the records read_records yielded
    skipped,         \* cursor values of the records read_records dropped
    last_call,       \* the latest get_updated_state call: arguments, result, slice
    pc,              \* where the run is
    api_orgs,        \* the API: how many organizations it holds
    api_accounts,    \* the API: how many ad accounts each organization holds
    auxiliary_record_map,  \* the module-level cache, stream name -> slices
    fetches,         \* per parent type, how often its fetch was started
    empty_fetches,   \* per parent type, how many fetches ended without records
    n_calls,         \* calls made so far in the run
    resolve_call,    \* the latest outermost get_depend_on_records call
    slices_call,     \* the latest outermost stream_slices call
    level_idx,       \* AdaccountStats.read_records: the breakdown level being read
    parsed_all,      \* every record parsed so far, of every breakdown level
    merged_response, \* merged_response, in insertion order
    stats_result,    \* what AdaccountStats.read_records returned
    stats_pc,        \* where AdaccountStats.read_records is
    stats_state,     \* the stream_state AdaccountStats.read_records is called with
    granularity,     \* self.granularity
    stream_slice,    \* the slice request_params is called with
    now,             \* the clock pendulum.now reads
    local_timezone,  \* the timezone of the host, which pendulum takes for timezone=None
    params,          \* what AdaccountStats.request_params returned
    resp_stream,     \* the name of the stream a response is handled for
    response,        \* response.json() of the response being handled
    parsed,          \* what parse_response did with the response
    page_token,      \* what next_page_token did with the response
    pg_stream,       \* the paginated read: the name of the stream read
    pg_pages,        \* the API: per breakdown level, the number of pages it holds
    pg_level,        \* the breakdown level being read
    pg_token,        \* next_page_token of the pagination loop
    pg_requests,     \* the parameters of the requests sent for the level so far
    pg_parsed,       \* parsed_responses: the pages received for the level so far
    pg_pc,           \* where the paginated read is
    fresh_total,     \* Freshchat: total_pages the API reports
    fresh_token,     \* Freshchat: next_page_token of the pagination loop
    fresh_requests,  \* Freshchat: the page numbers requested so far
    fresh_response,  \* Freshchat: the pagination object of the latest response
    fresh_pc,        \* Freshchat: where the read is
    token_endpoint,  \* what the token endpoint answers to the POST
    me_endpoint,     \* what the API answers to the GET of me
    posts,           \* POST requests sent to the token endpoint
    gets,            \* GET requests sent for me
    auth_result      \* the latest check_connection / refresh_access_token call

readVars == <<start_date, pre_state, stream_state, slices, last_slice, current_slice,
              slice_idx, pending, all_records, emitted, skipped, last_call, pc>>

resolveVars == <<api_orgs, api_accounts, auxiliary_record_map, fetches, empty_fetches,
                 n_calls, resolve_call, slices_call>>

statsVars == <<level_idx, parsed_all, merged_response, stats_result, stats_pc, stats_state>>

paramVars == <<granularity, stream_slice, now, local_timezone, params>>

responseVars == <<resp_stream, response, parsed, page_token>>

pagingVars == <<pg_stream, pg_pages, pg_level, pg_token, pg_requests, pg_parsed, pg_pc>>

freshVars == <<fresh_total, fresh_token, fresh_requests, fresh_response, fresh_pc>>

authVars == <<token_endpoint, me_endpoint, posts, gets, auth_result>>

vars == <<readVars, resolveVars, statsVars, paramVars,
          responseVars, pagingVars, freshVars, authVars>>

(***************************************************************************)
(* IncrementalSnapchatMarketingStream                                      *)
(***************************************************************************)
\* get_updated_state returning the latest record's cursor, whatever the state holds
get_updated_state_latest(current_stream_state, latest_record) ==
    CursorMap(Get(latest_record, cursor_field, EmptyStr))

\* get_updated_state taking min where the code takes max
get_updated_state_min(current_stream_state, latest_record) ==
    LET cur == IF current_stream_state = EmptyState THEN CursorMap(start_date)
               ELSE current_stream_state
        a == Get(latest_record, cursor_field, EmptyStr)
        b == Get(cur, cursor_field, EmptyStr)
    IN  CursorMap(IF a <= b THEN a ELSE b)

\* get_updated_state comparing with "" where no state is persisted yet
get_updated_state_no_start(current_stream_state, latest_record) ==
    CursorMap(Max2(Get(latest_record, cursor_field, EmptyStr),
                   Get(current_stream_state, cursor_field, EmptyStr)))

get_updated_state(current_stream_state, latest_record) ==
    LET cur == IF current_stream_state = EmptyState THEN CursorMap(start_date)
               ELSE current_stream_state
    IN  CursorMap(Max2(Get(latest_record, cursor_field, EmptyStr),
                       Get(cur, cursor_field, EmptyStr)))

\* the records read_records yields of those the request returned
read_records(state, records) ==
    IF state # EmptyState
    THEN SelectSeq(records, LAMBDA record : record[cursor_field] > state[cursor_field])
    ELSE records

\* the records read_records drops
dropped_records(state, records) ==
    IF state # EmptyState
    THEN SelectSeq(records, LAMBDA record : ~(record[cursor_field] > state[cursor_field]))
    ELSE <<>>

\* read_records called for the next slice with the state the run holds
ReadRecords ==
    /\ pc = "read_records"
    /\ \E records \in SeqsUpTo({CursorMap(c) : c \in CursorValues}, MaxRecs) :
         /\ current_slice' = slices[slice_idx]
         /\ pending' = read_records(stream_state, records)
         /\ all_records' = all_records \cup {r[cursor_field] : r \in Range(records)}
         /\ skipped' = skipped \cup
                {r[cursor_field] : r \in Range(dropped_records(stream_state, records))}
    /\ pc' = "emit"
    /\ UNCHANGED <<start_date, pre_state, stream_state, slices, last_slice, slice_idx,
                   emitted, last_call>>
    /\ UNCHANGED <<resolveVars, statsVars, paramVars,
                   responseVars, pagingVars, freshVars, authVars>>

\* one record is yielded and fed to get_updated_state
EmitRecord ==
    /\ pc = "emit"
    /\ pending # <<>>
    /\ emitted' = emitted \cup {Head(pending)[cursor_field]}
    /\ stream_state' = get_updated_state(stream_state, Head(pending))
    /\ last_call' = [current_stream_state |-> stream_state,
                     latest_record |-> Head(pending),
                     result |-> get_updated_state(stream_state, Head(pending)),
                     slice |-> current_slice]
    /\ pending' = Tail(pending)
    /\ UNCHANGED <<start_date, pre_state, slices, last_slice, current_slice, slice_idx,
                   all_records, skipped, pc>>
    /\ UNCHANGED <<resolveVars, statsVars, paramVars,
                   responseVars, pagingVars, freshVars, authVars>>

\* the slice is exhausted: on to the next one, or the run is over
EndSlice ==
    /\ pc = "emit"
    /\ pending = <<>>
    /\ IF slice_idx = Len(slices)
       THEN pc' = "done" /\ UNCHANGED slice_idx
       ELSE pc' = "read_records" /\ slice_idx' = slice_idx + 1
    /\ UNCHANGED <<start_date, pre_state, stream_state, slices, last_slice,
                   current_slice, pending, all_records, emitted, skipped, last_call>>
    /\ UNCHANGED <<resolveVars, statsVars, paramVars,
                   responseVars, pagingVars, freshVars, authVars>>

ReadInit ==
    /\ start_date \in CursorValues
    /\ pre_state \in {EmptyState} \cup {CursorMap(c) : c \in CursorValues}
    /\ stream_state = pre_state
    /\ slices = <<>>
    /\ last_slice = None
    /\ current_slice = None
    /\ slice_idx = 0
    /\ pending = <<>>
    /\ all_records = {}
    /\ emitted = {}
    /\ skipped = {}
    /\ last_call = NoCall
    /\ pc = "stream_slices"

\* the read is not part of the run
ReadIdle ==
    /\ pre_state = EmptyState
    /\ stream_state = EmptyState
    /\ slices = <<>>
    /\ last_slice = None
    /\ current_slice = None
    /\ slice_idx = 0
    /\ pending = <<>>
    /\ all_records = {}
    /\ emitted = {}
    /\ skipped = {}
    /\ last_call = NoCall
    /\ pc = "idle"

(***************************************************************************)
(* get_depend_on_records and auxiliary_record_map                          *)
(***************************************************************************)
\* depends_on_stream = None
NoStream == "None"

ParentNames == {"Organizations", "Adaccounts"}

\* the streams whose stream_slices is IncrementalSnapchatMarketingStream's
\* (Ads stands for Creatives, Media, Campaigns, Ads, Adsquads and Segments,
\* which differ in nothing the resolver reads)
IncrementalStreams == {"Adaccounts", "Ads", "AdaccountStats"}

\* the class attribute depends_on_stream
depends_on_stream_of(stream) ==
    CASE stream = "Adaccounts" -> "Organizations"
      [] stream \in {"Ads", "AdaccountStats"} -> "Adaccounts"
      [] OTHER -> NoStream

\* the class attribute slice_key_names
slice_key_names_of(stream) ==
    IF stream = "AdaccountStats" THEN {"id", "timezone"} ELSE {"id"}

\* the records of the API, as parse_response yields them
OrganizationRecord(o) == [id |-> o, name |-> "organization"]

AdaccountRecord(o, a) ==
    [id |-> 10 * o + a, name |-> "adaccount", organization_id |-> o, timezone |-> "UTC"]

\* what the stream's read_records(sync_mode=full_refresh, stream_slice) yields:
\* no stream state is passed, so nothing is filtered
full_refresh_records(stream, slice) ==
    IF stream = "Organizations"
    THEN [o \in 1..api_orgs |-> OrganizationRecord(o)]
    ELSE [a \in 1..api_accounts[Get(slice, "id", 0)] |->
              AdaccountRecord(Get(slice, "id", 0), a)]

\* an empty list where [None] is meant
default_stream_slices_return_value_empty == <<>>

\* default_stream_slices_return_value
default_stream_slices_return_value == <<None>>

\* line 69: is the parent type in the cache
in_cache_never(name, cache) == FALSE

in_cache(name, cache) == name \in DOMAIN cache

\* the cache made anew for the parent type stored
cache_store_alone(cache, name, records) == [n \in {name} |-> records]

\* line 112: the cache with the parent type's slices stored
cache_store(cache, name, records) ==
    [n \in DOMAIN cache \cup {name} |-> IF n = name THEN records ELSE cache[n]]

\* the records of all slices, slice after slice
RECURSIVE records_of_slices(_, _)
records_of_slices(stream, stream_slices) ==
    IF stream_slices = <<>> THEN <<>>
    ELSE full_refresh_records(stream, Head(stream_slices))
             \o records_of_slices(stream, Tail(stream_slices))

\* get_depend_on_records and stream_slices call each other; st carries the cache
\* and the counters of fetches through the calls. Each returns ret (the value
\* returned), raised (an exception left the call) and st.
RECURSIVE get_depend_on_records(_, _, _)
RECURSIVE stream_slices_of(_, _)

\* stream.stream_slices(): of a stream that is not incremental, the default [None]
stream_slices_of(stream, st) ==
    IF stream \notin IncrementalStreams
    THEN [ret |-> default_stream_slices_return_value, raised |-> FALSE, st |-> st,
          resolved |-> <<>>]
    ELSE LET r == get_depend_on_records(depends_on_stream_of(stream),
                                        slice_key_names_of(stream), st)
         IN  IF r.raised \/ r.ret = <<>>
             \* an empty list: the error is logged, nothing is yielded, and
             \* stream_slices[-1] raises IndexError
             THEN [ret |-> <<>>, raised |-> TRUE, st |-> r.st, resolved |-> r]
             ELSE [ret |-> r.ret, raised |-> FALSE, st |-> r.st, resolved |-> r]

get_depend_on_records(depends_on_stream, slice_key_names, st) ==
    IF depends_on_stream = NoStream
    THEN [ret |-> default_stream_slices_return_value, raised |-> FALSE, st |-> st]
    ELSE IF in_cache(depends_on_stream, st.cache)
    THEN [ret |-> st.cache[depends_on_stream], raised |-> FALSE, st |-> st]
    ELSE LET started == [st EXCEPT !.fetches[depends_on_stream] = @ + 1]
             depend_on_stream_slices == stream_slices_of(depends_on_stream, started)
             after == depend_on_stream_slices.st
             records == records_of_slices(depends_on_stream, depend_on_stream_slices.ret)
             depend_on_stream_records ==
                 [i \in 1..Len(records) |-> [k \in slice_key_names |-> records[i][k]]]
         IN  IF depend_on_stream_slices.raised
             THEN [ret |-> <<>>, raised |-> TRUE,
                   st |-> [after EXCEPT !.empty_fetches[depends_on_stream] = @ + 1]]
             ELSE IF depend_on_stream_records = <<>>
             THEN [ret |-> <<>>, raised |-> FALSE,
                   st |-> [after EXCEPT !.empty_fetches[depends_on_stream] = @ + 1]]
             ELSE [ret |-> depend_on_stream_records, raised |-> FALSE,
                   st |-> [after EXCEPT !.cache =
                               cache_store(@, depends_on_stream, depend_on_stream_records)]]

\* the cache and the counters, as the calls thread them
ResolverState ==
    [cache |-> auxiliary_record_map, fetches |-> fetches, empty_fetches |-> empty_fetches]

\* a record of an outermost get_depend_on_records call
ResolveCall(depends_on_stream, slice_key_names, r) ==
    [depends_on_stream |-> depends_on_stream,
     slice_key_names |-> slice_key_names,
     miss |-> depends_on_stream # NoStream /\ ~in_cache(depends_on_stream, auxiliary_record_map),
     ret |-> r.ret,
     raised |-> r.raised]

\* a stream of the sync computes its slices
CallStreamSlices(stream) ==
    /\ n_calls < MaxCalls
    /\ LET s == stream_slices_of(stream, ResolverState)
       IN  /\ auxiliary_record_map' = s.st.cache
           /\ fetches' = s.st.fetches
           /\ empty_fetches' = s.st.empty_fetches
           /\ resolve_call' = ResolveCall(depends_on_stream_of(stream),
                                          slice_key_names_of(stream), s.resolved)
           /\ slices_call' = [stream |-> stream, ret |-> s.ret, raised |-> s.raised,
                              last_slice |-> IF s.raised THEN None ELSE s.ret[Len(s.ret)]]
    /\ n_calls' = n_calls + 1
    /\ UNCHANGED <<api_orgs, api_accounts>>
    /\ UNCHANGED <<readVars, statsVars, paramVars,
                   responseVars, pagingVars, freshVars, authVars>>

\* get_depend_on_records called directly
CallGetDependOnRecords(depends_on_stream, slice_key_names) ==
    /\ n_calls < MaxCalls
    /\ LET r == get_depend_on_records(depends_on_stream, slice_key_names, ResolverState)
       IN  /\ auxiliary_record_map' = r.st.cache
           /\ fetches' = r.st.fetches
           /\ empty_fetches' = r.st.empty_fetches
           /\ resolve_call' = ResolveCall(depends_on_stream, slice_key_names, r)
    /\ slices_call' = NoCall
    /\ n_calls' = n_calls + 1
    /\ UNCHANGED <<api_orgs, api_accounts>>
    /\ UNCHANGED <<readVars, statsVars, paramVars,
                   responseVars, pagingVars, freshVars, authVars>>

\* the stream whose incremental read the run follows
ReadStream == "Ads"

\* stream_slices of the stream read: the slices get_depend_on_records returned
\* (which it took from the cache or fetched and stored there) are yielded and
\* the last of them is kept in last_slice; of an empty list there is no last
\* element
StreamSlices ==
    /\ pc = "stream_slices"
    /\ LET s == stream_slices_of(ReadStream, ResolverState)
       IN  /\ auxiliary_record_map' = s.st.cache
           /\ fetches' = s.st.fetches
           /\ empty_fetches' = s.st.empty_fetches
           /\ resolve_call' = ResolveCall(depends_on_stream_of(ReadStream),
                                          slice_key_names_of(ReadStream), s.resolved)
           /\ slices_call' = [stream |-> ReadStream, ret |-> s.ret, raised |-> s.raised,
                              last_slice |-> IF s.raised THEN None ELSE s.ret[Len(s.ret)]]
           /\ IF s.raised
              THEN /\ pc' = "error"
                   /\ UNCHANGED <<slices, last_slice, slice_idx>>
              ELSE /\ last_slice' = s.ret[Len(s.ret)]
                   /\ slices' = s.ret
                   /\ slice_idx' = 1
                   /\ pc' = "read_records"
    /\ n_calls' = n_calls + 1
    /\ UNCHANGED <<api_orgs, api_accounts>>
    /\ UNCHANGED <<start_date, pre_state, stream_state, current_slice, pending,
                   all_records, emitted, skipped, last_call>>
    /\ UNCHANGED <<statsVars, paramVars,
                   responseVars, pagingVars, freshVars, authVars>>

\* the arguments the dependent streams and the tests call get_depend_on_records with
ResolveArgs ==
    {<<NoStream, {"id"}>>, <<"Organizations", {"id"}>>,
     <<"Adaccounts", {"id"}>>, <<"Adaccounts", {"id", "timezone"}>>}

ResolveInit ==
    /\ api_orgs \in 0..MaxOrgs
    /\ api_accounts \in [1..MaxOrgs -> 0..MaxAccts]
    /\ \A o \in 1..MaxOrgs : o > api_orgs => api_accounts[o] = 0
    /\ auxiliary_record_map = [n \in {} |-> <<>>]
    /\ fetches = [n \in ParentNames |-> 0]
    /\ empty_fetches = [n \in ParentNames |-> 0]
    /\ n_calls = 0
    /\ resolve_call = NoCall
    /\ slices_call = NoCall

\* the ad accounts the API holds, all organizations together
RECURSIVE accounts_up_to(_, _)
accounts_up_to(accounts, o) ==
    IF o = 0 THEN 0 ELSE accounts[o] + accounts_up_to(accounts, o - 1)

\* the resolver at the start of an incremental read: the cache is empty and the
\* API holds at most MaxSlices ad accounts
ReadResolveInit ==
    /\ ResolveInit
    /\ accounts_up_to(api_accounts, MaxOrgs) <= MaxSlices

\* the resolver is not part of the run
ResolveIdle ==
    /\ api_orgs = 0
    /\ api_accounts = [o \in 1..MaxOrgs |-> 0]
    /\ auxiliary_record_map = [n \in {} |-> <<>>]
    /\ fetches = [n \in ParentNames |-> 0]
    /\ empty_fetches = [n \in ParentNames |-> 0]
    /\ n_calls = 0
    /\ resolve_call = NoCall
    /\ slices_call = NoCall

(***************************************************************************)
(* AdaccountStats.read_records: the merge of the breakdown levels          *)
(***************************************************************************)
\* the breakdown levels the stream's schema names under breakdown_stats,
\* in the order of the schema
BreakdownLevels == <<"campaign", "adsquad", "ad">>

\* strings are sequences of characters, so that "".join is \o
StatsIds == {<<"1">>, <<"1", "2">>}
StatsTypes == {<<"3">>, <<"2", "3">>}
StatsStartTimes == {<<"4">>}
StatsEndTimes == {<<"5">>, <<"6">>}

\* the records the stats endpoint can return, without their breakdown_stats
StatsRecords ==
    [id : StatsIds, type : StatsTypes, start_time : StatsStartTimes,
     end_time : StatsEndTimes]

\* a parsed record of the request for breakdown level `level`; its payload is
\* numbered by its place among the parsed records
ParsedRecord(r, level, payload) ==
    [id |-> r.id, type |-> r.type, start_time |-> r.start_time, end_time |-> r.end_time,
     breakdown_stats |-> [l \in {level} |-> payload]]

\* "".join([id, type, start_time, end_time])
account_stats_key(resp) ==
    resp.id \o resp.type \o resp.start_time \o resp.end_time

\* {**a, **b}
dict_union(a, b) ==
    [k \in DOMAIN a \cup DOMAIN b |-> IF k \in DOMAIN b THEN b[k] ELSE a[k]]

\* the merge keeping only the breakdown_stats seen last
merge_one_overwrite(merged, resp, n) ==
    LET key == account_stats_key(resp)
    IN  IF \E i \in DOMAIN merged : merged[i].key = key
        THEN [i \in DOMAIN merged |->
                IF merged[i].key = key
                THEN [merged[i] EXCEPT
                        !.value.breakdown_stats = Get(resp, "breakdown_stats", None),
                        !.sources = @ \cup {n}]
                ELSE merged[i]]
        ELSE Append(merged, [key |-> key, value |-> resp, sources |-> {n}])

\* the merge putting a record merged again at the end of merged_response
merge_one_reinsert(merged, resp, n) ==
    LET key == account_stats_key(resp)
    IN  IF \E i \in DOMAIN merged : merged[i].key = key
        THEN LET i == CHOOSE j \in DOMAIN merged : merged[j].key = key
                 entry == [merged[i] EXCEPT
                             !.value.breakdown_stats =
                                 dict_union(Get(merged[i].value, "breakdown_stats", None),
                                            Get(resp, "breakdown_stats", None)),
                             !.sources = @ \cup {n}]
             IN  Append(SelectSeq(merged, LAMBDA e : e.key # key), entry)
        ELSE Append(merged, [key |-> key, value |-> resp, sources |-> {n}])

\* one pass of the merge loop: resp is the n-th record parsed in the read.
\* merged is merged_response in insertion order; sources names, for every merged
\* record, the parsed records that went into it
merge_one(merged, resp, n) ==
    LET key == account_stats_key(resp)
    IN  IF \E i \in DOMAIN merged : merged[i].key = key
        THEN [i \in DOMAIN merged |->
                IF merged[i].key = key
                THEN [merged[i] EXCEPT
                        !.value.breakdown_stats =
                            dict_union(Get(merged[i].value, "breakdown_stats", None),
                                       Get(resp, "breakdown_stats", None)),
                        !.sources = @ \cup {n}]
                ELSE merged[i]]
        ELSE Append(merged, [key |-> key, value |-> resp, sources |-> {n}])

\* the merge loop over the parsed responses of one breakdown level
RECURSIVE merge_all(_, _, _)
merge_all(merged, parsed_responses, n) ==
    IF parsed_responses = <<>> THEN merged
    ELSE merge_all(merge_one(merged, Head(parsed_responses), n + 1),
                   Tail(parsed_responses), n + 1)

\* one breakdown level whose pagination has completed (SpecPaging follows the
\* loop request by request): what was parsed is merged into merged_response
ReadLevel ==
    /\ stats_pc = "levels"
    /\ level_idx < Len(BreakdownLevels)
    /\ \E rs \in SeqsUpTo(StatsRecords, MaxParsed - Len(parsed_all)) :
         LET breakdown_level == BreakdownLevels[level_idx + 1]
             parsed_responses ==
                 [i \in 1..Len(rs) |->
                     ParsedRecord(rs[i], breakdown_level, Len(parsed_all) + i)]
         IN  /\ merged_response' = merge_all(merged_response, parsed_responses,
                                             Len(parsed_all))
             /\ parsed_all' = parsed_all \o parsed_responses
    /\ level_idx' = level_idx + 1
    /\ UNCHANGED <<stats_result, stats_pc, stats_state>>
    /\ UNCHANGED <<readVars, resolveVars, paramVars,
                   responseVars, pagingVars, freshVars, authVars>>

\* return merged_response.values()
StatsReturn ==
    /\ stats_pc = "levels"
    /\ level_idx = Len(BreakdownLevels)
    /\ stats_result' = [i \in DOMAIN merged_response |-> merged_response[i].value]
    /\ stats_pc' = "done"
    /\ UNCHANGED <<level_idx, parsed_all, merged_response, stats_state>>
    /\ UNCHANGED <<readVars, resolveVars, paramVars,
                   responseVars, pagingVars, freshVars, authVars>>

\* AdaccountStats.cursor_field
stats_cursor_field == "end_time"

\* the states a read is called with: none persisted yet, or the cursor of an
\* earlier run
StatsStates ==
    {EmptyState} \cup {[k \in {stats_cursor_field} |-> t] : t \in StatsEndTimes}

StatsInit ==
    /\ level_idx = 0
    /\ parsed_all = <<>>
    /\ merged_response = <<>>
    /\ stats_result = <<>>
    /\ stats_pc = "levels"
    /\ stats_state \in StatsStates

StatsIdle ==
    /\ level_idx = 0
    /\ parsed_all = <<>>
    /\ merged_response = <<>>
    /\ stats_result = <<>>
    /\ stats_pc = "idle"
    /\ stats_state = EmptyState

(***************************************************************************)
(* AdaccountStats.request_params and _get_rounded_datetime                 *)
(***************************************************************************)
\* instants are minutes since an epoch; a datetime is an instant with the
\* timezone it is expressed in
HourMinutes == 60
DayMinutes == 1440

\* the default datetime="" of _get_rounded_datetime
EmptyDatetime == -1

\* the day number (days since 1970-01-01) of a date of the proleptic Gregorian
\* calendar
days_from_civil(year, month, day) ==
    LET y == IF month <= 2 THEN year - 1 ELSE year
        era == y \div 400
        yoe == y - era * 400
        mp == IF month > 2 THEN month - 3 ELSE month + 9
        doy == (153 * mp + 2) \div 5 + day - 1
        doe == yoe * 365 + yoe \div 4 - yoe \div 100 + doy
    IN  era * 146097 + doe - 719468

\* the calendar year a day number falls in
year_of(days) ==
    LET z == days + 719468
        era == z \div 146097
        doe == z - era * 146097
        yoe == (doe - doe \div 1460 + doe \div 36524 - doe \div 146096) \div 365
        doy == doe - (365 * yoe + yoe \div 4 - yoe \div 100)
        mp == (5 * doy + 2) \div 153
    IN  yoe + era * 400 + (IF mp < 10 THEN 0 ELSE 1)

\* the day of the week of a day number, 0 for Sunday
weekday(days) == (days + 4) % 7

\* the day number of the n-th Sunday of a month, and of its last Sunday
nth_sunday(year, month, n) ==
    LET first == days_from_civil(year, month, 1)
    IN  first + ((7 - weekday(first)) % 7) + 7 * (n - 1)

last_sunday(year, month) ==
    LET last == days_from_civil(year, month + 1, 1) - 1
    IN  last - weekday(last)

\* the first year of the time zone rules modelled: the offsets of the years
\* before it are left undefined
FirstRuleYear == 1967

\* the days on which daylight saving time begins and ends in
\* America/Los_Angeles, by the rules in force since FirstRuleYear
dst_begin_day(year) ==
    CASE year >= 2007 -> nth_sunday(year, 3, 2)
      [] year >= 1987 /\ year < 2007 -> nth_sunday(year, 4, 1)
      [] year = 1975 -> days_from_civil(1975, 2, 23)
      [] year = 1974 -> days_from_civil(1974, 1, 6)
      [] year >= FirstRuleYear /\ year < 1987 /\ year \notin {1974, 1975} ->
            last_sunday(year, 4)

dst_end_day(year) ==
    CASE year >= 2007 -> nth_sunday(year, 11, 1)
      [] year >= FirstRuleYear /\ year < 2007 -> last_sunday(year, 10)

\* the offsets of America/Los_Angeles in standard and in daylight saving time
PacificStandard == -480
PacificDaylight == -420

\* daylight saving time is in force from 02:00 standard time of the day it
\* begins until 02:00 daylight time of the day it ends (instants from
\* FirstRuleYear on)
is_dst(instant) ==
    LET year == year_of(instant \div DayMinutes)
    IN  /\ instant >= dst_begin_day(year) * DayMinutes + 2 * HourMinutes - PacificStandard
        /\ instant < dst_end_day(year) * DayMinutes + 2 * HourMinutes - PacificDaylight

\* the instant lies in the years whose time zone rules are modelled
in_rule_years(instant) == year_of(instant \div DayMinutes) >= FirstRuleYear

\* utc offset of a timezone at an instant, in minutes; for a zone other than
\* UTC it is defined for the instants from FirstRuleYear on
utc_offset(timezone, instant) ==
    CASE timezone = "UTC" -> 0
      [] timezone = "Asia/Kolkata" /\ in_rule_years(instant) -> 330
      [] timezone = "America/Los_Angeles" /\ in_rule_years(instant) ->
            IF is_dst(instant) THEN PacificDaylight ELSE PacificStandard

\* the offset of a timezone outside daylight saving time
standard_offset(timezone) ==
    CASE timezone = "UTC" -> 0
      [] timezone = "Asia/Kolkata" -> 330
      [] timezone = "America/Los_Angeles" -> PacificStandard

\* the instant of a time on the local clock of a timezone; a time the clock
\* shows twice is taken after the transition, in standard time
from_local(local, timezone) ==
    LET standard == local - standard_offset(timezone)
    IN  IF utc_offset(timezone, standard) = standard_offset(timezone) THEN standard
        ELSE local - PacificDaylight

\* the timezones of the accounts and of the host
Timezones == {"UTC", "Asia/Kolkata", "America/Los_Angeles"}

\* pendulum's in_timezone(timezone) / now(timezone)
in_timezone(instant, timezone) ==
    [instant |-> instant, timezone |-> IF timezone = "None" THEN local_timezone ELSE timezone]

\* result.start_of(unit): the time at which the unit began on the local clock
start_of(datetime, unit_minutes) ==
    LET local == datetime.instant + utc_offset(datetime.timezone, datetime.instant)
    IN  [datetime EXCEPT !.instant =
            from_local(local - (local % unit_minutes), datetime.timezone)]

\* _get_rounded_datetime giving None for TOTAL as it does for LIFETIME
get_rounded_datetime_total_none(datetime, timezone, unit) ==
    LET result == IF datetime # EmptyDatetime THEN in_timezone(datetime, timezone)
                  ELSE in_timezone(now, timezone)
    IN  IF unit \in {"LIFETIME", "TOTAL"} THEN None
        ELSE IF unit = "DAY" THEN start_of(result, DayMinutes)
        ELSE start_of(result, HourMinutes)

\* _get_rounded_datetime rounding to the hour for LIFETIME as it does for TOTAL
get_rounded_datetime_never_none(datetime, timezone, unit) ==
    LET result == IF datetime # EmptyDatetime THEN in_timezone(datetime, timezone)
                  ELSE in_timezone(now, timezone)
    IN  IF unit = "DAY" THEN start_of(result, DayMinutes)
        ELSE start_of(result, HourMinutes)

\* AdaccountStats._get_rounded_datetime
get_rounded_datetime(datetime, timezone, unit) ==
    LET result == IF datetime # EmptyDatetime THEN in_timezone(datetime, timezone)
                  ELSE in_timezone(now, timezone)
    IN  IF unit = "LIFETIME" THEN None
        ELSE IF unit = "DAY" THEN start_of(result, DayMinutes)
        ELSE start_of(result, HourMinutes)

\* AdaccountStats.request_params
request_params(slice) ==
    LET account_timezone == IF slice # None THEN Get(slice, "timezone", "None") ELSE "None"
        start_time == get_rounded_datetime(start_date, account_timezone, granularity)
        end_time == get_rounded_datetime(EmptyDatetime, account_timezone, granularity)
    IN  [start_time |-> start_time, end_time |-> end_time, granularity |-> granularity]

\* the granularities the configuration allows
Granularities == {"TOTAL", "LIFETIME", "DAY", "HOUR"}

\* the slices request_params is called with: none, one without a timezone (a
\* slice cached for slice_key_names ["id"]), and one per account timezone
ParamSlices ==
    {None, [id |-> 11]}
        \cup {[id |-> 11, timezone |-> tz] : tz \in Timezones}

\* the instants the model draws the start date and the clock from: in winter,
\* in summer, at noon of the day daylight saving time begins, and in the hour
\* the local clock shows twice on the day it ends
StartInstants ==
    {DayMinutes * ParamDays, DayMinutes * ParamDays + 725, DayMinutes * DstDay + 725,
     DayMinutes * dst_begin_day(1970) + 19 * HourMinutes,
     DayMinutes * dst_end_day(1970) + 8 * HourMinutes + 30}
ClockInstants ==
    {DayMinutes * (ParamDays + 1) + 61, DayMinutes * (ParamDays + 2) + 1439,
     DayMinutes * (DstDay + 2) + 61}

\* request_params is called for a request
RequestParams ==
    /\ \E slice \in ParamSlices :
         /\ stream_slice' = slice
         /\ params' = request_params(slice)
    /\ UNCHANGED <<granularity, now, local_timezone>>
    /\ UNCHANGED <<readVars, resolveVars, statsVars,
                   responseVars, pagingVars, freshVars, authVars>>

\* time passes between two requests
ClockTick ==
    /\ \E t \in ClockInstants : t > now /\ now' = t
    /\ UNCHANGED <<granularity, stream_slice, local_timezone, params>>
    /\ UNCHANGED <<readVars, resolveVars, statsVars,
                   responseVars, pagingVars, freshVars, authVars>>

ParamsInit ==
    /\ start_date \in StartInstants
    /\ granularity \in Granularities
    /\ stream_slice = None
    /\ now \in ClockInstants
    /\ local_timezone \in Timezones
    /\ params = NoCall

ParamsIdle ==
    /\ granularity = "TOTAL"
    /\ stream_slice = None
    /\ now = 0
    /\ local_timezone = "UTC"
    /\ params = NoCall

(***************************************************************************)
(* SnapchatMarketingStream: parse_response and next_page_token             *)
(***************************************************************************)
\* self.name of the streams whose responses are handled
ResponseStreams == {"organizations", "media"}

\* response_root_name
response_root_name(name) == name

\* name[:-1]
without_last_char(name) ==
    CASE name = "organizations" -> "organization"
      [] name = "media" -> "medi"

\* response_item_name; Media overrides it with response_root_name
response_item_name(name) ==
    IF name = "media" THEN response_root_name(name)
    ELSE without_last_char(response_root_name(name))

\* the message of the SnapchatMarketingException, part by part
error_text(name) ==
    <<"JSON field named '", response_item_name(name),
      "' is absent in the response for ", name, " stream">>

\* parse_response that passes over an item without the wrapper key
RECURSIVE parse_items_skipping(_, _)
parse_items_skipping(name, json_response) ==
    IF json_response = <<>>
    THEN [yielded |-> <<>>, raised |-> FALSE, error |-> <<>>]
    ELSE LET resp == Head(json_response)
             rest == parse_items_skipping(name, Tail(json_response))
         IN  IF response_item_name(name) \notin DOMAIN resp THEN rest
             ELSE [rest EXCEPT !.yielded = <<resp[response_item_name(name)]>> \o @]

\* the loop of parse_response: what is yielded before the generator ends, and
\* the exception that ends it
RECURSIVE parse_items(_, _)
parse_items(name, json_response) ==
    IF json_response = <<>>
    THEN [yielded |-> <<>>, raised |-> FALSE, error |-> <<>>]
    ELSE LET resp == Head(json_response)
         IN  IF response_item_name(name) \notin DOMAIN resp
             THEN [yielded |-> <<>>, raised |-> TRUE, error |-> error_text(name)]
             ELSE LET rest == parse_items(name, Tail(json_response))
                  IN  [rest EXCEPT !.yielded = <<resp[response_item_name(name)]>> \o @]

\* parse_response; iterating the None that .get returns for an absent root is a
\* TypeError
parse_response(name, json) ==
    IF response_root_name(name) \notin DOMAIN json
    THEN [yielded |-> <<>>, raised |-> TRUE, error |-> <<"TypeError">>]
    ELSE parse_items(name, json[response_root_name(name)])

\* parse_qsl: the key/value pairs of a query string, those with a blank value left out
parse_qsl(query) == SelectSeq(query, LAMBDA kv : kv[2] # "")

\* dict(pairs): a later pair replaces an earlier one of the same key
dict(pairs) ==
    [k \in {pairs[i][1] : i \in DOMAIN pairs} |->
        pairs[CHOOSE i \in DOMAIN pairs :
                 /\ pairs[i][1] = k
                 /\ \A j \in DOMAIN pairs : pairs[j][1] = k => j <= i][2]]

\* urlparse(url).query
urlparse_query(url) == url.query

\* next_page_token: ret is the token (None when the method falls off its end),
\* raised tells that a KeyError left it
next_page_token(json) ==
    IF "paging" \notin DOMAIN json \/ DOMAIN json["paging"] = {}
    THEN [ret |-> None, raised |-> FALSE]
    ELSE LET next_page_cursor == json["paging"]
         IN  IF "next_link" \notin DOMAIN next_page_cursor
             THEN [ret |-> None, raised |-> TRUE]
             ELSE LET query == dict(parse_qsl(urlparse_query(next_page_cursor["next_link"])))
                  IN  IF "cursor" \notin DOMAIN query
                      THEN [ret |-> None, raised |-> TRUE]
                      ELSE [ret |-> [cursor |-> query["cursor"]], raised |-> FALSE]

\* the items of a response: a record under the wrapper key of one of the
\* streams, or under a key that is no stream's wrapper
ItemKeys == {"organization", "media", "sub_request_status"}
ResponseItems == {k :> [id |-> i] : k \in ItemKeys, i \in {1, 2}}

\* the query strings of the links the API sends
Queries ==
    { <<>>,
      << <<"cursor", "c1">> >>,
      << <<"limit", "50">>, <<"cursor", "c2">> >>,
      << <<"cursor", "c1">>, <<"cursor", "c2">> >>,
      << <<"cursor", "">>, <<"limit", "50">> >> }
Links == {[path |-> "v1", query |-> q] : q \in Queries}

\* the paging objects of a response
Pagings ==
    {[k \in {} |-> None]}
        \cup {"next_link" :> l : l \in Links}
        \cup {"previous_link" :> l : l \in Links}

\* response.json() of the responses for a stream
Responses(name) ==
    LET bodies == {[k \in {} |-> <<>>]}
                    \cup {response_root_name(name) :> items :
                             items \in SeqsUpTo(ResponseItems, MaxItems)}
    IN  bodies \cup {b @@ ("paging" :> pg) : b \in bodies, pg \in Pagings}

\* a response arrives for a stream; resp_stream tells that one has arrived, the
\* body {} being a response like any other
ReceiveResponse ==
    /\ resp_stream = NoStream
    /\ \E name \in ResponseStreams :
          /\ resp_stream' = name
          /\ response' \in Responses(name)
    /\ parsed' = NoCall
    /\ page_token' = NoCall
    /\ UNCHANGED <<readVars, resolveVars, statsVars,
                   paramVars, pagingVars, freshVars, authVars>>

\* the response is parsed, every item of the generator consumed
ParseResponse ==
    /\ resp_stream # NoStream
    /\ parsed = NoCall
    /\ parsed' = parse_response(resp_stream, response)
    /\ UNCHANGED <<resp_stream, response, page_token>>
    /\ UNCHANGED <<readVars, resolveVars, statsVars,
                   paramVars, pagingVars, freshVars, authVars>>

\* the next page token is taken from the response
NextPageToken ==
    /\ parsed # NoCall
    /\ ~parsed.raised
    /\ page_token = NoCall
    /\ page_token' = next_page_token(response)
    /\ UNCHANGED <<resp_stream, response, parsed>>
    /\ UNCHANGED <<readVars, resolveVars, statsVars,
                   paramVars, pagingVars, freshVars, authVars>>

ResponseInit ==
    /\ resp_stream = NoStream
    /\ response = NoCall
    /\ parsed = NoCall
    /\ page_token = NoCall

\* no response is being handled
ResponseIdle == ResponseInit

(***************************************************************************)
(* The pagination loop                                                     *)
(***************************************************************************)
\* self.name of the streams read page by page
PagedStreams == {"organizations", "adaccount_stats"}

\* the pagination sequences of a read: one per breakdown level for
\* AdaccountStats, a single one for the other streams
PagingLevels(name) ==
    IF name = "adaccount_stats" THEN BreakdownLevels ELSE <<"None">>

\* the slice the read is for
PagingSlice == [id |-> 11, timezone |-> "UTC"]

\* SnapchatMarketingStream.request_params: next_page_token or {}
base_request_params(next_page_token_arg) ==
    IF next_page_token_arg # None THEN next_page_token_arg ELSE [k \in {} |-> ""]

\* AdaccountStats.request_params, which does not read its next_page_token
stats_request_params(slice, next_page_token_arg) == request_params(slice)

\* the parameters of the request the loop sends: request_params, and for
\* AdaccountStats breakdown and fields, which prepare_url adds
prepared_params(name, level, next_page_token_arg) ==
    IF name = "adaccount_stats"
    THEN stats_request_params(PagingSlice, next_page_token_arg)
             @@ [breakdown |-> level, fields |-> "stats_fields"]
    ELSE base_request_params(next_page_token_arg)

\* the cursor the API gives to a page, and the page a cursor stands for
cursor_of(page) == ToString(page)
page_of(cursor) == CHOOSE page \in 1..(MaxPages + 1) : cursor_of(page) = cursor

\* the page the API serves for a request: the first one, unless the request
\* has a cursor
served_page(request) ==
    IF "cursor" \in DOMAIN request THEN page_of(request["cursor"]) ELSE 1

\* response.json() of a page, its items left out: a page that is not the last
\* one of its sequence has paging.next_link
page_json(page, pages) ==
    IF page < pages
    THEN [paging |-> [next_link |->
             [path |-> "v1",
              query |-> << <<"limit", "50">>, <<"cursor", cursor_of(page + 1)>> >>]]]
    ELSE [k \in {} |-> None]

\* the requests sent so far for the sequence being read
LevelRequests == SelectSeq(pg_requests, LAMBDA r : r.level = pg_level)

\* an iteration of `while not pagination_complete`: the request is built and
\* sent, the response parsed, the next page token taken from it
PageRequest ==
    /\ pg_pc = "loop"
    /\ Len(LevelRequests) < MaxRequests
    /\ LET request == prepared_params(pg_stream, PagingLevels(pg_stream)[pg_level], pg_token)
           page == served_page(request)
           token == next_page_token(page_json(page, pg_pages[pg_level]))
       IN  /\ pg_requests' = Append(pg_requests,
                  [level |-> pg_level, params |-> request, page |-> page,
                   next_page_token |-> token.ret])
           /\ pg_parsed' = Append(pg_parsed, page)
           /\ pg_token' = token.ret
           /\ pg_pc' = IF token.ret = None THEN "complete" ELSE "loop"
    /\ UNCHANGED <<pg_stream, pg_pages, pg_level>>
    /\ UNCHANGED <<readVars, resolveVars, statsVars,
                   paramVars, responseVars, freshVars, authVars>>

\* the record the stats endpoint returns for the account of PagingSlice, without
\* its breakdown_stats
PagingRecord ==
    [id |-> <<"1", "1">>, type |-> <<"3">>, start_time |-> <<"4">>, end_time |-> <<"5">>]

\* parsed_responses of a breakdown level: one record per page received, its
\* payload the page it came with
level_parsed_responses(level, pages) ==
    [i \in DOMAIN pages |-> ParsedRecord(PagingRecord, level, pages[i])]

\* the pagination of a sequence is complete: AdaccountStats merges what was
\* parsed for the level into merged_response and starts the next breakdown
\* level with no token; after the last sequence the read returns, for
\* AdaccountStats the values of merged_response
NextLevel ==
    /\ pg_pc = "complete"
    /\ IF pg_level < Len(PagingLevels(pg_stream))
       THEN /\ pg_level' = pg_level + 1
            /\ pg_token' = None
            /\ pg_parsed' = <<>>
            /\ pg_pc' = "loop"
       ELSE /\ pg_pc' = "done"
            /\ UNCHANGED <<pg_level, pg_token, pg_parsed>>
    /\ IF pg_stream = "adaccount_stats"
       THEN LET parsed_responses ==
                    level_parsed_responses(PagingLevels(pg_stream)[pg_level], pg_parsed)
                merged == merge_all(merged_response, parsed_responses, Len(parsed_all))
            IN  /\ merged_response' = merged
                /\ parsed_all' = parsed_all \o parsed_responses
                /\ level_idx' = level_idx + 1
                /\ IF pg_level < Len(PagingLevels(pg_stream))
                   THEN UNCHANGED <<stats_result, stats_pc>>
                   ELSE /\ stats_result' = [i \in DOMAIN merged |-> merged[i].value]
                        /\ stats_pc' = "done"
       ELSE UNCHANGED <<level_idx, parsed_all, merged_response, stats_result, stats_pc>>
    /\ UNCHANGED stats_state
    /\ UNCHANGED <<pg_stream, pg_pages, pg_requests>>
    /\ UNCHANGED <<readVars, resolveVars,
                   paramVars, responseVars, freshVars, authVars>>

PagingInit ==
    /\ pg_stream \in PagedStreams
    /\ pg_pages \in [1..Len(PagingLevels(pg_stream)) -> 1..MaxPages]
    /\ pg_level = 1
    /\ pg_token = None
    /\ pg_requests = <<>>
    /\ pg_parsed = <<>>
    /\ pg_pc = "loop"

\* no paginated read is under way
PagingIdle ==
    /\ pg_stream = NoStream
    /\ pg_pages = <<>>
    /\ pg_level = 0
    /\ pg_token = None
    /\ pg_requests = <<>>
    /\ pg_parsed = <<>>
    /\ pg_pc = "idle"

(***************************************************************************)
(* FreshchatStream: request_params and next_page_token                     *)
(***************************************************************************)
\* FreshchatStream.items_per_page
items_per_page == 100

\* FreshchatStream.order_field and order_type
order_field == None
order_type == "asc"

\* FreshchatStream.next_page_token; int(None) of an absent field is a TypeError
freshchat_next_page_token(json) ==
    LET pagination == Get(json, "pagination", None)
    IN  IF ~({"current_page", "total_pages"} \subseteq DOMAIN pagination)
        THEN [ret |-> None, raised |-> TRUE]
        ELSE LET current_page == pagination["current_page"]
                 total_pages == pagination["total_pages"]
             IN  IF current_page < total_pages
                 THEN [ret |-> [page |-> current_page + 1], raised |-> FALSE]
                 ELSE [ret |-> None, raised |-> FALSE]

\* FreshchatStream.request_params; None has no attribute get: AttributeError
freshchat_request_params(next_page_token_arg) ==
    IF next_page_token_arg = None
    THEN [ret |-> None, raised |-> TRUE]
    ELSE LET base == [page |-> Get(next_page_token_arg, "page", None),
                      items_per_page |-> items_per_page]
         IN  [ret |-> IF order_field # None
                      THEN base @@ [sort_by |-> order_field, sort_order |-> order_type]
                      ELSE base,
              raised |-> FALSE]

\* what the API answers to the request of a page
freshchat_response(page) ==
    [pagination |-> [current_page |-> page, total_pages |-> fresh_total]]

\* an iteration of the read's loop up to the response: the parameters of the
\* request are built from the token the loop holds, the request is sent
FreshRequest ==
    /\ fresh_pc = "request"
    /\ LET r == freshchat_request_params(fresh_token)
       IN  /\ fresh_requests' = Append(fresh_requests,
                  [next_page_token |-> fresh_token, params |-> r.ret, raised |-> r.raised])
           /\ IF r.raised
              THEN /\ fresh_pc' = "error"
                   /\ UNCHANGED fresh_response
              ELSE /\ fresh_pc' = "token"
                   /\ fresh_response' = freshchat_response(r.ret["page"])
    /\ UNCHANGED <<fresh_total, fresh_token>>
    /\ UNCHANGED <<readVars, resolveVars, statsVars,
                   paramVars, responseVars, pagingVars, authVars>>

\* the rest of the iteration: the token of the next page is taken from the
\* response, and the loop ends when there is none
FreshNextPageToken ==
    /\ fresh_pc = "token"
    /\ LET t == freshchat_next_page_token(fresh_response)
       IN  /\ fresh_token' = t.ret
           /\ fresh_pc' = IF t.raised THEN "error"
                          ELSE IF t.ret = None THEN "done" ELSE "request"
    /\ UNCHANGED <<fresh_total, fresh_requests, fresh_response>>
    /\ UNCHANGED <<readVars, resolveVars, statsVars,
                   paramVars, responseVars, pagingVars, authVars>>

\* the loop is entered with the token None, as a read enters it, or with the
\* token of a page of the API
FreshInit ==
    /\ fresh_total \in 1..MaxTotalPages
    /\ fresh_token \in {None} \cup {[page |-> k] : k \in 1..fresh_total}
    /\ fresh_requests = <<>>
    /\ fresh_response = NoCall
    /\ fresh_pc = "request"

\* no Freshchat read is under way
FreshIdle ==
    /\ fresh_total = 0
    /\ fresh_token = None
    /\ fresh_requests = <<>>
    /\ fresh_response = NoCall
    /\ fresh_pc = "idle"

(***************************************************************************)
(* SnapchatAdsOauth2Authenticator and check_connection                     *)
(***************************************************************************)
\* the exceptions of requests that `except RequestException` catches
RequestExceptions == {"ConnectionError", "HTTPError", "JSONDecodeError"}

\* an exception: its type, the fields of the upstream body its message formats,
\* and the exception it was raised from
Error(type, error, error_description, exception) ==
    [type |-> type, error |-> error, error_description |-> error_description,
     exception |-> exception]

\* the JSON bodies the token endpoint sends
TokenBodies ==
    { [k \in {} |-> ""],
      [error |-> "invalid_grant"],
      [error |-> "invalid_grant", error_description |-> "expired"],
      [access_token |-> "t1", expires_in |-> "3600"],
      [access_token |-> "t1"] }

\* what the POST meets: no connection; or a response with a status and a body,
\* which is JSON or is not
TokenOutcomes ==
    {[kind |-> "ConnectionError"]}
        \cup {[kind |-> "response", status |-> st, is_json |-> TRUE, body |-> b] :
                 st \in {200, 401, 500}, b \in TokenBodies}
        \cup {[kind |-> "response", status |-> st, is_json |-> FALSE] :
                 st \in {200, 401, 500}}

\* what the GET of me meets: no connection, or a response with a status
MeOutcomes ==
    {[kind |-> "ConnectionError"]}
        \cup {[kind |-> "response", status |-> st] : st \in {200, 401, 500}}

\* response.raise_for_status() raises HTTPError for a client or server error
\* status, 400 to 599
raises_for_status(status) == status >= 400 /\ status < 600

\* the handler of `except requests.exceptions.RequestException as e`
refresh_except(response_json, e) ==
    IF response_json # None /\ "error" \in DOMAIN response_json
    THEN IF "error_description" \in DOMAIN response_json
         THEN [ret |-> None, raised |-> TRUE,
               error |-> Error("Exception", response_json["error"],
                               response_json["error_description"], e)]
         \* response_json["error_description"] raises KeyError in the handler
         ELSE [ret |-> None, raised |-> TRUE,
               error |-> Error("KeyError", "", "", "error_description")]
    ELSE [ret |-> None, raised |-> TRUE, error |-> Error("Exception", "", "", e)]

\* refresh_access_token: the outcomes of the call for what the POST meets. The
\* error response.json() raises for a body that is not JSON is a
\* RequestException in some versions of requests and a plain ValueError in
\* the others; the second is not caught.
refresh_access_token(outcome) ==
    IF outcome.kind = "ConnectionError"
    THEN {refresh_except(None, "ConnectionError")}
    ELSE IF ~outcome.is_json
    THEN {refresh_except(None, "JSONDecodeError"),
          [ret |-> None, raised |-> TRUE,
           error |-> Error("ValueError", "", "", "JSONDecodeError")]}
    ELSE IF raises_for_status(outcome.status)
    THEN {refresh_except(outcome.body, "HTTPError")}
    ELSE IF "access_token" \notin DOMAIN outcome.body
    THEN {[ret |-> None, raised |-> TRUE, error |-> Error("KeyError", "", "", "access_token")]}
    ELSE IF "expires_in" \notin DOMAIN outcome.body
    THEN {[ret |-> None, raised |-> TRUE, error |-> Error("KeyError", "", "", "expires_in")]}
    ELSE {[ret |-> <<outcome.body["access_token"], outcome.body["expires_in"]>>,
           raised |-> FALSE, error |-> None]}

\* check_connection, given what refresh_access_token did: get_access_token of
\* the new authenticator refreshes the token; an exception that is no
\* RequestException leaves check_connection
check_connection(refreshed, me) ==
    IF refreshed.raised
    THEN IF refreshed.error.type \in RequestExceptions
         THEN [ret |-> <<FALSE, refreshed.error>>, raised |-> FALSE, error |-> None, gets |-> 0]
         ELSE [ret |-> None, raised |-> TRUE, error |-> refreshed.error, gets |-> 0]
    ELSE IF me.kind = "ConnectionError"
    THEN [ret |-> <<FALSE, Error("ConnectionError", "", "", "")>>, raised |-> FALSE,
          error |-> None, gets |-> 1]
    ELSE IF raises_for_status(me.status)
    THEN [ret |-> <<FALSE, Error("HTTPError", "", "", "")>>, raised |-> FALSE,
          error |-> None, gets |-> 1]
    ELSE [ret |-> <<TRUE, None>>, raised |-> FALSE, error |-> None, gets |-> 1]

\* refresh_access_token is called
RefreshAccessToken ==
    /\ auth_result = NoCall
    /\ \E r \in refresh_access_token(token_endpoint) :
          auth_result' = [call |-> "refresh_access_token", ret |-> r.ret,
                          raised |-> r.raised, error |-> r.error]
    /\ posts' = posts + 1
    /\ UNCHANGED <<token_endpoint, me_endpoint, gets>>
    /\ UNCHANGED <<readVars, resolveVars, statsVars,
                   paramVars, responseVars, pagingVars, freshVars>>

\* check_connection is called
CheckConnection ==
    /\ auth_result = NoCall
    /\ \E r \in refresh_access_token(token_endpoint) :
          LET c == check_connection(r, me_endpoint)
          IN  /\ auth_result' = [call |-> "check_connection", ret |-> c.ret,
                                 raised |-> c.raised, error |-> c.error]
              /\ gets' = gets + c.gets
    /\ posts' = posts + 1
    /\ UNCHANGED <<token_endpoint, me_endpoint>>
    /\ UNCHANGED <<readVars, resolveVars, statsVars,
                   paramVars, responseVars, pagingVars, freshVars>>

AuthInit ==
    /\ token_endpoint \in TokenOutcomes
    /\ me_endpoint \in MeOutcomes
    /\ posts = 0
    /\ gets = 0
    /\ auth_result = NoCall

\* no connection is being checked
AuthIdle ==
    /\ token_endpoint = NoCall
    /\ me_endpoint = NoCall
    /\ posts = 0
    /\ gets = 0
    /\ auth_result = NoCall

(***************************************************************************)
(* Specifications.                                                         *)
(***************************************************************************)
Init == ReadInit /\ ReadResolveInit /\ StatsIdle /\ ParamsIdle /\ ResponseIdle
    /\ PagingIdle /\ FreshIdle /\ AuthIdle

Next ==
    \/ StreamSlices
    \/ ReadRecords
    \/ EmitRecord
    \/ EndSlice

Spec == Init /\ [][Next]_vars

InitResolve ==
    ResolveInit /\ start_date = 1 /\ ReadIdle /\ StatsIdle /\ ParamsIdle /\ ResponseIdle
    /\ PagingIdle /\ FreshIdle /\ AuthIdle

NextResolve ==
    \/ \E stream \in IncrementalStreams : CallStreamSlices(stream)
    \/ \E args \in ResolveArgs : CallGetDependOnRecords(args[1], args[2])

SpecResolve == InitResolve /\ [][NextResolve]_vars

InitStats ==
    StatsInit /\ start_date = 1 /\ ReadIdle /\ ResolveIdle /\ ParamsIdle /\ ResponseIdle
    /\ PagingIdle /\ FreshIdle /\ AuthIdle

NextStats ==
    \/ ReadLevel
    \/ StatsReturn

SpecStats == InitStats /\ [][NextStats]_vars

InitParams ==
    ParamsInit /\ ReadIdle /\ ResolveIdle /\ StatsIdle /\ ResponseIdle
    /\ PagingIdle /\ FreshIdle /\ AuthIdle

NextParams ==
    \/ RequestParams
    \/ ClockTick

SpecParams == InitParams /\ [][NextParams]_vars

InitResponse ==
    ResponseInit /\ start_date = 1 /\ ReadIdle /\ ResolveIdle /\ StatsIdle /\ ParamsIdle
    /\ PagingIdle /\ FreshIdle /\ AuthIdle

NextResponse ==
    \/ ReceiveResponse
    \/ ParseResponse
    \/ NextPageToken

SpecResponse == InitResponse /\ [][NextResponse]_vars

InitFresh ==
    FreshInit /\ start_date = 1 /\ ReadIdle /\ ResolveIdle /\ StatsIdle /\ ParamsIdle
    /\ ResponseIdle /\ PagingIdle /\ AuthIdle

NextFresh ==
    \/ FreshRequest
    \/ FreshNextPageToken

SpecFresh == InitFresh /\ [][NextFresh]_vars

InitPaging ==
    PagingInit /\ ParamsInit /\ ReadIdle /\ ResolveIdle /\ StatsIdle
    /\ ResponseIdle /\ FreshIdle /\ AuthIdle

NextPaging ==
    \/ PageRequest
    \/ NextLevel

SpecPaging == InitPaging /\ [][NextPaging]_vars

InitAuth ==
    AuthInit /\ start_date = 1 /\ ReadIdle /\ ResolveIdle /\ StatsIdle /\ ParamsIdle
    /\ ResponseIdle /\ PagingIdle /\ FreshIdle

NextAuth ==
    \/ RefreshAccessToken
    \/ CheckConnection

SpecAuth == InitAuth /\ [][NextAuth]_vars

(***************************************************************************)
(* Claims about the sliced incremental read (specification Spec).         *)
(***************************************************************************)
\* the cursor a state stands for: an empty state counts as the start date
EffCursor(state) ==
    Get(IF state = EmptyState THEN CursorMap(start_date) ELSE state, cursor_field, EmptyStr)

\* C1: once every slice has been processed, the state cursor is the maximum of
\* the cursors of all records of all slices and of the pre-run state (the start
\* date standing for an empty pre-run state), whatever the order of slices and
\* of records within them.
C1_FinalStateIsMax ==
    pc = "done" => EffCursor(stream_state) = MaxOf(all_records \cup {EffCursor(pre_state)})

\* a finished run of two slices in which a later record above the pre-run state
\* lay below what an earlier slice had reached, and the state is the overall maximum
C1_Witness ==
    /\ pc = "done"
    /\ Len(slices) >= 2
    /\ pre_state # EmptyState
    /\ \E r \in skipped : r > pre_state[cursor_field]
    /\ stream_state # pre_state
    /\ stream_state[cursor_field] = MaxOf(all_records)

\* C2: with a state persisted before the run, a record is emitted if and only if
\* its cursor is strictly greater than that pre-run state: every emitted record
\* lies above it and every dropped record lies at or below it.
C2_FilterAgainstPreRunState ==
    pre_state # EmptyState =>
        /\ \A r \in emitted : r > pre_state[cursor_field]
        /\ \A r \in skipped : r <= pre_state[cursor_field]

\* C3: a get_updated_state call made while a slice other than last_slice is being
\* processed returns the initial state (the pre-run state, or the start date).
C3_StateKeptUntilLastSlice ==
    (last_call # NoCall /\ last_call.slice # last_slice) =>
        last_call.result = CursorMap(EffCursor(pre_state))

\* C4: the cursor get_updated_state returns is never below the cursor of the
\* state passed in, nor below the start date when that state is empty.
C4_CursorNeverDecreases ==
    last_call # NoCall =>
        last_call.result[cursor_field] >= EffCursor(last_call.current_stream_state)

\* get_updated_state was fed a record whose cursor lies below the state passed in
C4_Witness ==
    /\ last_call # NoCall
    /\ last_call.current_stream_state # EmptyState
    /\ last_call.latest_record[cursor_field] < last_call.current_stream_state[cursor_field]
    /\ stream_state = last_call.result

\* C11: get_updated_state called with an empty current stream state returns
\* {cursor_field: start_date}, also when the latest record's cursor is later
\* than the start date.
C11_EmptyStateGivesStartDate ==
    (last_call # NoCall /\ last_call.current_stream_state = EmptyState) =>
        last_call.result = CursorMap(start_date)

\* C18: every get_updated_state call returns {cursor_field: max(latest record's
\* cursor, cursor of the state passed in)}, the start date taking the place of
\* the state's cursor when the state passed in is empty.
C18_ResultIsMaxOfRecordAndState ==
    last_call # NoCall =>
        LET record == last_call.latest_record[cursor_field]
            base == IF last_call.current_stream_state = EmptyState THEN start_date
                    ELSE last_call.current_stream_state[cursor_field]
        IN  /\ DOMAIN last_call.result = {cursor_field}
            /\ last_call.result[cursor_field] \in {record, base}
            /\ last_call.result[cursor_field] >= record
            /\ last_call.result[cursor_field] >= base

\* get_updated_state was called with an empty state and a record older than the
\* start date, and answered with the start date
C18_Witness ==
    /\ last_call # NoCall
    /\ last_call.current_stream_state = EmptyState
    /\ last_call.latest_record[cursor_field] < start_date
    /\ last_call.result = CursorMap(start_date)

(***************************************************************************)
(* Claims about get_depend_on_records (specification SpecResolve).        *)
(***************************************************************************)
\* the ad accounts of organizations 1..o, organization after organization
RECURSIVE AdaccountsUpTo(_)
AdaccountsUpTo(o) ==
    IF o = 0 THEN <<>>
    ELSE AdaccountsUpTo(o - 1) \o [a \in 1..api_accounts[o] |-> AdaccountRecord(o, a)]

\* the records the API holds of a parent type, in parent-slice and record order
ParentRecords(parent) ==
    IF parent = "Organizations"
    THEN [o \in 1..api_orgs |-> OrganizationRecord(o)]
    ELSE AdaccountsUpTo(api_orgs)

\* one slice per parent record, holding the fields named
ExpectedSlices(parent, keys) ==
    [i \in 1..Len(ParentRecords(parent)) |-> [k \in keys |-> ParentRecords(parent)[i][k]]]

\* C5 (as stated): no parent type is fetched more than once in a run.
C5_AtMostOneFetch ==
    \A p \in ParentNames : fetches[p] <= 1

\* C5 (amended): once auxiliary_record_map holds a parent type, no call fetches
\* that type again; and every fetch either ends without records or puts the type
\* into the map, so at most one fetch per parent type yields records in a run.
C5_NoFetchOnceCached ==
    [][\A p \in ParentNames :
          /\ p \in DOMAIN auxiliary_record_map => fetches'[p] = fetches[p]
          /\ fetches'[p] # fetches[p] =>
                /\ fetches'[p] = fetches[p] + 1
                /\ \/ p \in DOMAIN auxiliary_record_map'
                   \/ empty_fetches'[p] = empty_fetches[p] + 1]_vars

\* a second call for a parent type was served from the cache after a single fetch
C5_Witness ==
    /\ n_calls >= 2
    /\ resolve_call # NoCall
    /\ resolve_call.depends_on_stream \in ParentNames
    /\ ~resolve_call.miss
    /\ fetches[resolve_call.depends_on_stream] = 1
    /\ Len(resolve_call.ret) >= 2

\* C6: on a cache miss get_depend_on_records returns the flat sequence of one
\* slice per parent record, in parent-slice and then record order, each slice
\* holding exactly the slice_key_names fields of its record.
C6_MissReturnsFlatSlices ==
    (resolve_call # NoCall /\ resolve_call.miss) =>
        /\ ~resolve_call.raised
        /\ resolve_call.ret =
               ExpectedSlices(resolve_call.depends_on_stream, resolve_call.slice_key_names)

\* C7: when the parent stream yields zero records, get_depend_on_records returns
\* an empty sequence and the dependent stream's stream_slices yields no slices
\* and raises nothing.
C7_EmptyParentDegradesGracefully ==
    (slices_call # NoCall /\ ParentRecords(resolve_call.depends_on_stream) = <<>>) =>
        /\ ~resolve_call.raised
        /\ resolve_call.ret = <<>>
        /\ ~slices_call.raised
        /\ slices_call.ret = <<>>

\* C12: get_depend_on_records called with the parent stream None returns
\* [None], fetches nothing and leaves auxiliary_record_map as it was.
C12_NoParentNoFetch ==
    [][(resolve_call' # NoCall /\ resolve_call'.depends_on_stream = NoStream) =>
          /\ resolve_call'.ret = <<None>>
          /\ ~resolve_call'.raised
          /\ auxiliary_record_map' = auxiliary_record_map
          /\ fetches' = fetches
          /\ empty_fetches' = empty_fetches]_vars

\* a call with the parent None returned [None] while records of a parent were
\* cached, and nothing had been fetched for it
C12_Witness ==
    /\ resolve_call # NoCall
    /\ resolve_call.depends_on_stream = NoStream
    /\ resolve_call.ret = <<None>>
    /\ ~resolve_call.miss
    /\ "Organizations" \in DOMAIN auxiliary_record_map
    /\ fetches["Adaccounts"] = 0

\* C25: every slice get_depend_on_records returns for a parent stream holds
\* every field named in the slice_key_names of that call, also when the call is
\* served from the cache after a call for the same parent type with other
\* slice_key_names.
C25_SlicesHoldRequestedKeys ==
    (resolve_call # NoCall /\ resolve_call.depends_on_stream # NoStream) =>
        \A i \in DOMAIN resolve_call.ret :
            resolve_call.slice_key_names \subseteq DOMAIN resolve_call.ret[i]

\* C26: every entry of auxiliary_record_map is a sequence of slices that is not
\* empty; an entry once written is never replaced or removed; and a call that
\* is a cache hit, or that stores nothing, leaves the entries as they were.
C26_CacheEntriesAreStable ==
    /\ [](\A p \in DOMAIN auxiliary_record_map : auxiliary_record_map[p] # <<>>)
    /\ [][/\ \A p \in DOMAIN auxiliary_record_map :
                /\ p \in DOMAIN auxiliary_record_map'
                /\ auxiliary_record_map'[p] = auxiliary_record_map[p]
          /\ (~resolve_call'.miss \/ resolve_call'.ret = <<>>) =>
                \A p \in DOMAIN auxiliary_record_map' :
                    \/ p \in DOMAIN auxiliary_record_map
                    \/ (resolve_call'.miss /\ p # resolve_call'.depends_on_stream)]_vars

\* the map holds the slices of both parent types, those of Organizations
\* written first, and the latest call was served from it
C26_Witness ==
    /\ DOMAIN auxiliary_record_map = ParentNames
    /\ resolve_call # NoCall
    /\ resolve_call.depends_on_stream \in ParentNames
    /\ ~resolve_call.miss
    /\ n_calls = MaxCalls
    /\ fetches["Organizations"] = 1

(***************************************************************************)
(* Claims about parse_response and next_page_token (specification         *)
(* SpecResponse).                                                          *)
(***************************************************************************)
\* the link of the response being handled has a cursor parameter
HasCursorLink ==
    /\ "paging" \in DOMAIN response
    /\ "next_link" \in DOMAIN response["paging"]
    /\ \E i \in DOMAIN response["paging"]["next_link"].query :
          LET kv == response["paging"]["next_link"].query[i]
          IN  kv[1] = "cursor" /\ kv[2] # ""

\* C13: next_page_token returns None without raising when the response has no
\* paging object and when paging is present but has no next_link; when
\* next_link is present the token is {cursor: the cursor parameter of next_link}.
C13_NoNextLinkNoToken ==
    page_token # NoCall =>
        /\ ("paging" \notin DOMAIN response \/ "next_link" \notin DOMAIN response["paging"])
               => (~page_token.raised /\ page_token.ret = None)
        /\ HasCursorLink =>
               /\ ~page_token.raised
               /\ DOMAIN page_token.ret = {"cursor"}
               /\ \E i \in DOMAIN response["paging"]["next_link"].query :
                     response["paging"]["next_link"].query[i] =
                         <<"cursor", page_token.ret["cursor"]>>

\* the index of the first item of the response without the wrapper key; one
\* past the last item when every item has it
FirstMalformed ==
    LET items == response[response_root_name(resp_stream)]
        bad == {i \in DOMAIN items : response_item_name(resp_stream) \notin DOMAIN items[i]}
    IN  IF bad = {} THEN Len(items) + 1
        ELSE CHOOSE i \in bad : \A j \in bad : i <= j

\* C15: parse_response raises SnapchatMarketingException, its message naming
\* the stream and the missing field, at an item without the wrapper key, which
\* is never passed over; the items with the wrapper key are yielded unwrapped,
\* in response order, up to that raise.
C15_MissingWrapperIsFatal ==
    (parsed # NoCall /\ response_root_name(resp_stream) \in DOMAIN response) =>
        LET items == response[response_root_name(resp_stream)]
        IN  /\ parsed.raised <=> FirstMalformed <= Len(items)
            /\ parsed.raised =>
                  /\ resp_stream \in Range(parsed.error)
                  /\ response_item_name(resp_stream) \in Range(parsed.error)
            /\ Len(parsed.yielded) = FirstMalformed - 1
            /\ \A i \in DOMAIN parsed.yielded :
                  parsed.yielded[i] = items[i][response_item_name(resp_stream)]

\* a response whose second item lacks the wrapper key was parsed: the first
\* item was yielded, then the exception was raised
C15_Witness ==
    /\ parsed # NoCall
    /\ response_root_name(resp_stream) \in DOMAIN response
    /\ Len(response[response_root_name(resp_stream)]) = 2
    /\ FirstMalformed = 2
    /\ parsed.raised
    /\ Len(parsed.yielded) = 1

(***************************************************************************)
(* Claims about the Freshchat pagination (specification SpecFresh).       *)
(***************************************************************************)
\* the loop was entered as a read enters it: no token, or no request yet made
\* with one
ReadFromStart ==
    IF fresh_requests = <<>> THEN fresh_token = None
    ELSE fresh_requests[1].next_page_token = None

\* C14: next_page_token returns {page: current_page + 1} if and only if
\* current_page < total_pages and None otherwise, so that against a fixed
\* total_pages the requested page numbers strictly increase and the read stops
\* at the response where current_page = total_pages.
C14_PagesIncreaseUntilLast ==
    /\ (fresh_response # NoCall /\ fresh_pc \in {"request", "done"}) =>
          LET pagination == fresh_response["pagination"]
          IN  fresh_token = IF pagination["current_page"] < pagination["total_pages"]
                            THEN [page |-> pagination["current_page"] + 1]
                            ELSE None
    /\ \A i, j \in DOMAIN fresh_requests :
          (i < j /\ ~fresh_requests[j].raised) =>
              fresh_requests[i].params["page"] < fresh_requests[j].params["page"]
    /\ (ReadFromStart /\ fresh_pc \in {"done", "error"}) =>
          /\ fresh_pc = "done"
          /\ fresh_response # NoCall
          /\ fresh_response["pagination"]["current_page"] = fresh_total

\* C21: the first request of a Freshchat read, built with no previous page
\* token, has the parameters page = 1 and items_per_page (and sort_by and
\* sort_order when an order field is set): request_params returns them without
\* an error when next_page_token is None.
C21_FirstRequestIsPageOne ==
    \A i \in DOMAIN fresh_requests :
        fresh_requests[i].next_page_token = None =>
            /\ ~fresh_requests[i].raised
            /\ "page" \in DOMAIN fresh_requests[i].params
            /\ fresh_requests[i].params["page"] = 1
            /\ fresh_requests[i].params["items_per_page"] = items_per_page
            /\ order_field # None =>
                  /\ fresh_requests[i].params["sort_by"] = order_field
                  /\ fresh_requests[i].params["sort_order"] = order_type

(***************************************************************************)
(* Claims about the pagination loop (specification SpecPaging).           *)
(***************************************************************************)
\* the requests sent for a pagination sequence
RequestsOfLevel(l) == SelectSeq(pg_requests, LAMBDA r : r.level = l)

\* C19: AdaccountStats.read_records terminates: for a breakdown level of P
\* pages linked by next_link cursors the loop sends exactly P requests, reaches
\* the page without a next link and only then moves on to the next level.
C19_ExactlyPRequestsPerLevel ==
    pg_stream = "adaccount_stats" =>
        \A l \in DOMAIN pg_pages :
            /\ Len(RequestsOfLevel(l)) <= pg_pages[l]
            /\ \A i \in DOMAIN RequestsOfLevel(l) : RequestsOfLevel(l)[i].page = i
            /\ (l < pg_level \/ pg_pc = "done") => Len(RequestsOfLevel(l)) = pg_pages[l]

\* C20: the first request of a pagination sequence carries no cursor, and
\* every later request carries, merged with the parameters of every request,
\* exactly the cursor token of the response before it; a breakdown level of
\* AdaccountStats starts with no token.
C20_RequestCarriesPrecedingCursor ==
    \A i \in DOMAIN pg_requests :
        IF i = 1 \/ pg_requests[i - 1].level # pg_requests[i].level
        THEN "cursor" \notin DOMAIN pg_requests[i].params
        ELSE /\ "cursor" \in DOMAIN pg_requests[i].params
             /\ pg_requests[i].params["cursor"] = pg_requests[i - 1].next_page_token["cursor"]
             /\ \A k \in DOMAIN pg_requests[i - 1].params \ {"cursor"} :
                   /\ k \in DOMAIN pg_requests[i].params
                   /\ pg_requests[i].params[k] = pg_requests[i - 1].params[k]

(***************************************************************************)
(* Claims about check_connection and refresh_access_token (specification  *)
(* SpecAuth).                                                              *)
(***************************************************************************)
\* the POST to the token endpoint fails: no connection, or a status that is not 2xx
TokenExchangeFails ==
    token_endpoint.kind = "ConnectionError" \/ token_endpoint.status >= 400

\* the token endpoint answers 2xx with a body holding the token and its lifetime
TokenExchangeSucceeds ==
    /\ token_endpoint.kind = "response"
    /\ token_endpoint.status < 400
    /\ token_endpoint.is_json
    /\ {"access_token", "expires_in"} \subseteq DOMAIN token_endpoint.body

\* the GET of me fails: no connection, or a status that is not 2xx
MeFails ==
    me_endpoint.kind = "ConnectionError" \/ me_endpoint.status >= 400

\* C16: check_connection never raises on a transport failure: it returns
\* (True, None) when the token exchange and the GET of me both succeed, and
\* (False, error) when the token exchange or the GET fails with a status that
\* is not 2xx or with a network error; each request is sent at most once.
C16_CheckConnectionReportsFailure ==
    (auth_result # NoCall /\ auth_result.call = "check_connection") =>
        /\ posts <= 1 /\ gets <= 1
        /\ (TokenExchangeSucceeds /\ ~MeFails) =>
               (~auth_result.raised /\ auth_result.ret = <<TRUE, None>>)
        /\ (TokenExchangeFails \/ (TokenExchangeSucceeds /\ MeFails)) =>
               /\ ~auth_result.raised
               /\ auth_result.ret[1] = FALSE
               /\ auth_result.ret[2] # None

\* C17: refresh_access_token sends exactly one POST; on success it returns
\* (access_token, expires_in) of the body; on a failed request it raises an
\* error that carries error and error_description of the body when the body
\* has an error field, and the raw transport error otherwise, also for a body
\* that has error but no error_description.
C17_RefreshFailureCarriesUpstreamError ==
    (auth_result # NoCall /\ auth_result.call = "refresh_access_token") =>
        /\ posts = 1
        /\ TokenExchangeSucceeds =>
               /\ ~auth_result.raised
               /\ auth_result.ret = <<token_endpoint.body["access_token"],
                                      token_endpoint.body["expires_in"]>>
        /\ TokenExchangeFails =>
               /\ auth_result.raised
               /\ IF /\ token_endpoint.kind = "response"
                     /\ token_endpoint.is_json
                     /\ "error" \in DOMAIN token_endpoint.body
                  THEN /\ auth_result.error.error = token_endpoint.body["error"]
                       /\ "error_description" \in DOMAIN token_endpoint.body =>
                              auth_result.error.error_description =
                                  token_endpoint.body["error_description"]
                  ELSE auth_result.error.exception \in RequestExceptions

(***************************************************************************)
(* Claims about AdaccountStats.read_records (specification SpecStats).    *)
(***************************************************************************)
\* the key of a stats record: id+type+start_time+end_time
StatsKey(r) == r.id \o r.type \o r.start_time \o r.end_time

\* the breakdown levels the parsed records of one key supplied
LevelsSupplied(key) ==
    UNION {DOMAIN parsed_all[i].breakdown_stats :
              i \in {j \in DOMAIN parsed_all : StatsKey(parsed_all[j]) = key}}

\* C8: read_records returns exactly one merged record per distinct key
\* id+type+start_time+end_time among all parsed records of all breakdown-level
\* requests, and the breakdown_stats of each holds the union of the breakdown
\* levels supplied for its key; records of different time windows stay apart.
C8_OneMergedRecordPerKey ==
    stats_pc = "done" =>
        /\ Len(stats_result) = Cardinality({StatsKey(parsed_all[i]) : i \in DOMAIN parsed_all})
        /\ \A i, j \in DOMAIN stats_result :
               i # j => StatsKey(stats_result[i]) # StatsKey(stats_result[j])
        /\ \A i \in DOMAIN stats_result :
               /\ \E j \in DOMAIN parsed_all :
                      StatsKey(parsed_all[j]) = StatsKey(stats_result[i])
               /\ DOMAIN stats_result[i].breakdown_stats =
                      LevelsSupplied(StatsKey(stats_result[i]))

\* two levels were merged into one record, and two records of one level and
\* entity with different time windows were returned apart
C8_Witness ==
    /\ stats_pc = "done"
    /\ \E i \in DOMAIN stats_result :
           Cardinality(DOMAIN stats_result[i].breakdown_stats) >= 2
    /\ \E i, j \in DOMAIN stats_result :
           /\ i # j
           /\ stats_result[i].id = stats_result[j].id
           /\ stats_result[i].type = stats_result[j].type
           /\ stats_result[i].end_time # stats_result[j].end_time
           /\ DOMAIN stats_result[i].breakdown_stats \cap
                  DOMAIN stats_result[j].breakdown_stats # {}

\* C9: two parsed records go into the same merged record only if they agree on
\* each of id, type, start_time and end_time.
C9_MergedOnlyIfFieldsAgree ==
    \A e \in Range(merged_response) :
        \A i, j \in e.sources :
            /\ parsed_all[i].id = parsed_all[j].id
            /\ parsed_all[i].type = parsed_all[j].type
            /\ parsed_all[i].start_time = parsed_all[j].start_time
            /\ parsed_all[i].end_time = parsed_all[j].end_time

\* the places among the parsed records of those with a key
ParsedWithKey(key) == {j \in DOMAIN parsed_all : StatsKey(parsed_all[j]) = key}

\* the place of the first parsed record with a key
FirstParsed(key) == CHOOSE j \in ParsedWithKey(key) : \A k \in ParsedWithKey(key) : j <= k

\* C24: the merge inserts a record with a new key as it is at the end of the
\* result; for a key that exists only breakdown_stats of the merged record
\* changes (levels added, a level present in both replaced by the payload seen
\* last), every other field and the position staying those of the record seen
\* first; the result lists the merged records by first insertion of their keys.
C24_MergeKeepsFirstSeenRecord ==
    /\ {merged_response[i].key : i \in DOMAIN merged_response} =
           {StatsKey(parsed_all[j]) : j \in DOMAIN parsed_all}
    /\ \A i, j \in DOMAIN merged_response :
           i < j => FirstParsed(merged_response[i].key) < FirstParsed(merged_response[j].key)
    /\ \A i \in DOMAIN merged_response :
           LET e == merged_response[i]
               first == parsed_all[FirstParsed(e.key)]
           IN  /\ DOMAIN e.value = DOMAIN first
               /\ \A f \in DOMAIN first \ {"breakdown_stats"} : e.value[f] = first[f]
               /\ DOMAIN e.value.breakdown_stats = LevelsSupplied(e.key)
               /\ \A l \in DOMAIN e.value.breakdown_stats :
                      \E j \in ParsedWithKey(e.key) :
                          /\ l \in DOMAIN parsed_all[j].breakdown_stats
                          /\ e.value.breakdown_stats[l] = parsed_all[j].breakdown_stats[l]
                          /\ \A k \in ParsedWithKey(e.key) :
                                 l \in DOMAIN parsed_all[k].breakdown_stats => k <= j
    /\ stats_pc = "done" =>
           stats_result = [i \in DOMAIN merged_response |-> merged_response[i].value]

\* the read returned two records; the first took in a later level after the
\* second had been inserted, and kept its place
C24_Witness ==
    /\ stats_pc = "done"
    /\ Len(stats_result) = 2
    /\ Cardinality(DOMAIN stats_result[1].breakdown_stats) = 2
    /\ \E n \in merged_response[1].sources :
           \A k \in merged_response[2].sources : n > k

\* the place of a character in the order Python compares strings by
CharCode(c) ==
    CASE c = "1" -> 1 [] c = "2" -> 2 [] c = "3" -> 3
      [] c = "4" -> 4 [] c = "5" -> 5 [] c = "6" -> 6

\* a > b, as Python compares two strings
RECURSIVE StrGreater(_, _)
StrGreater(a, b) ==
    IF a = <<>> THEN FALSE
    ELSE IF b = <<>> THEN TRUE
    ELSE IF Head(a) # Head(b) THEN CharCode(Head(a)) > CharCode(Head(b))
    ELSE StrGreater(Tail(a), Tail(b))

\* C23: called with a persisted state that is not empty, AdaccountStats
\* .read_records yields only merged records whose end_time is strictly greater
\* than the cursor of that state.
C23_StatsFilteredByState ==
    (stats_pc = "done" /\ stats_state # EmptyState) =>
        \A i \in DOMAIN stats_result :
            StrGreater(stats_result[i][stats_cursor_field], stats_state[stats_cursor_field])

(***************************************************************************)
(* Claims about AdaccountStats.request_params (specification SpecParams). *)
(***************************************************************************)
\* C10: for every configured granularity but LIFETIME the parameters
\* request_params returns hold a start_time and an end_time that are not None;
\* for LIFETIME both are None.
C10_TimesPresentUnlessLifetime ==
    params # NoCall =>
        /\ DOMAIN params = {"start_time", "end_time", "granularity"}
        /\ granularity # "LIFETIME" => (params.start_time # None /\ params.end_time # None)
        /\ granularity = "LIFETIME" => (params.start_time = None /\ params.end_time = None)

\* request_params has answered for granularity TOTAL, with both times set
C10_Witness ==
    /\ params # NoCall
    /\ granularity = "TOTAL"
    /\ params.granularity = "TOTAL"
    /\ params.start_time # None
    /\ params.end_time # None
    /\ params.start_time.instant # start_date

\* C22 as the specification words it: both TOTAL and LIFETIME leave start_time
\* and end_time out of the request parameters; only DAY and HOUR send a window.
C22_TotalAndLifetimeOmitTimes ==
    params # NoCall =>
        ((params.start_time = None /\ params.end_time = None)
             <=> granularity \in {"TOTAL", "LIFETIME"})

\* the minutes a datetime lies past the hour on the clock of its timezone
MinutesPastHour(datetime) ==
    (datetime.instant + utc_offset(datetime.timezone, datetime.instant)) % HourMinutes

\* C22, amended: LIFETIME alone leaves start_time and end_time out of the
\* request parameters (both are None); TOTAL sends a time window, both times
\* set, as DAY and HOUR do.
C22_OnlyLifetimeOmitsTimes ==
    params # NoCall =>
        /\ granularity = "LIFETIME" =>
              (params.start_time = None /\ params.end_time = None)
        /\ granularity \in {"TOTAL", "DAY", "HOUR"} =>
              (params.start_time # None /\ params.end_time # None)

\* request_params has answered for TOTAL and a slice of a timezone that is not
\* UTC with a window that ends at the start of the current hour
C22_Witness ==
    /\ params # NoCall
    /\ granularity = "TOTAL"
    /\ stream_slice # None
    /\ Get(stream_slice, "timezone", "UTC") # "UTC"
    /\ params.end_time # None
    /\ params.end_time.instant < now
    /\ MinutesPastHour(params.end_time) = 0

====
